---- MODULE Spec2Model ----
(***************************************************************************)
(* A model of the Scoundrel game engine (scoundrelc/game/card.py and       *)
(* scoundrelc/game/game.py).                                               *)
(*                                                                         *)
(* The GameState object is the record game_state, with the field names of  *)
(* the class.  Every method of the engine is an operator from a GameState  *)
(* record to the record after the call (and the returned value); the       *)
(* actions PlayCard and RunFromRoom are the two public mutating calls.     *)
(* An Optional value is a sequence of length 0 (None) or 1.                *)
(***************************************************************************)
EXTENDS Integers, Sequences, FiniteSets, TLC

VARIABLES
    game_state,          \* the GameState object (game.py:13-24)
    ret,                 \* the last engine call and what it returned
    left,                \* accepted engine calls still explored (bound of the model)
    room_events,         \* history: the successful runs ("run") and room-advances
                         \* ("advance") so far, in order
    app,                 \* ScoundrelApp's combat dialogs (tui.py:307-411)
    option_events        \* history: the last combat option chosen and the card
                         \* the engine resolved for it

vars == <<game_state, ret, left, room_events, app, option_events>>

-----------------------------------------------------------------------------
(* Bounds of the model *)

\* Accepted engine calls explored from a freshly constructed game (rejected
\* calls are always explored).
MaxCalls == 5

\* Accepted engine calls explored from the late-game state.
LateCalls == 10

\* Number of shuffle orders a new game is constructed from.
NumShuffles == 3

\* Number of scripted plays that lead from construction to the late-game state.
LatePlays == 37

-----------------------------------------------------------------------------
(* card.py *)

None == <<>>

Some(x) == <<x>>

Card(suit, value) == [suit |-> suit, value |-> value]

\* Variant of Card.type that tests for Suit.CLUBS only.
CardType_clubs_only(card) ==
    IF card.suit \in {"CLUBS"} THEN "MONSTER"
    ELSE IF card.suit = "DIAMONDS" THEN "WEAPON"
    ELSE "POTION"

\* Card.type: the category is a function of the suit alone.
CardType(card) ==
    IF card.suit \in {"CLUBS", "SPADES"} THEN "MONSTER"
    ELSE IF card.suit = "DIAMONDS" THEN "WEAPON"
    ELSE "POTION"

\* for value in range(lo, hi): cards.append(Card(suit, value))
SuitRun(suit, lo, hi) == [i \in 1..(hi - lo) |-> Card(suit, lo + i - 1)]

\* Deck._build_deck: clubs and spades 2..14, then diamonds and hearts 2..10.
build_deck ==
    SuitRun("CLUBS", 2, 15) \o SuitRun("SPADES", 2, 15)
        \o SuitRun("DIAMONDS", 2, 11) \o SuitRun("HEARTS", 2, 11)

\* Weapon(card): a freshly equipped weapon has no last_monster_defeated.
Weapon(card) == [card |-> card, last_monster_defeated |-> None]

\* Variant of Weapon.can_defeat that ignores last_monster_defeated.
can_defeat_always(weapon, monster) == TRUE

\* Variant of Weapon.can_defeat with <= for <.
can_defeat_allows_equal(weapon, monster) ==
    IF weapon.last_monster_defeated = None
    THEN TRUE
    ELSE monster.value <= weapon.last_monster_defeated[1].value

\* Weapon.can_defeat
can_defeat(weapon, monster) ==
    IF weapon.last_monster_defeated = None
    THEN TRUE
    ELSE monster.value < weapon.last_monster_defeated[1].value

-----------------------------------------------------------------------------
(* game.py: constants and small helpers *)

MaxHealth == 20

RoomSize == 4

RoomAdvancePlays == 3

Max(a, b) == IF a >= b THEN a ELSE b

Min(a, b) == IF a <= b THEN a ELSE b

HasMonster(cards) == \E i \in 1..Len(cards) : CardType(cards[i]) = "MONSTER"

\* Python list indexing: a negative index counts from the end of the list.
Position(cards, i) == IF i < 0 THEN Len(cards) + i + 1 ELSE i + 1

\* cards[i]
Item(cards, i) == cards[Position(cards, i)]

\* Variant of cards.pop(i) that removes the last element, like cards.pop().
Pop_last(cards, i) == SubSeq(cards, 1, Len(cards) - 1)

\* cards.pop(i): the list without that element.
Pop(cards, i) ==
    SubSeq(cards, 1, Position(cards, i) - 1)
        \o SubSeq(cards, Position(cards, i) + 1, Len(cards))

\* The text of a returned message, abstracted to which sentence it is, the
\* number it prints and whether " You enter a new room." was appended.
Message(kind, amount) == [kind |-> kind, amount |-> amount, new_room |-> FALSE]

-----------------------------------------------------------------------------
(* game.py: GameState *)

\* Variant of _check_victory that scans the dungeon only.
check_victory_dungeon_only(s) ==
    IF HasMonster(s.dungeon) THEN s
    ELSE [s EXCEPT !.game_over = TRUE, !.victory = TRUE]

\* GameState._check_victory
check_victory(s) ==
    IF HasMonster(s.dungeon) THEN s
    ELSE IF HasMonster(s.current_room) THEN s
    ELSE [s EXCEPT !.game_over = TRUE, !.victory = TRUE]

\* for card in cards: if card.type == CardType.MONSTER: count += 1
count_monsters(cards) ==
    Cardinality({i \in 1..Len(cards) : CardType(cards[i]) = "MONSTER"})

\* Variant of get_remaining_monster_count that scans the dungeon only.
get_remaining_monster_count_dungeon_only(s) ==
    [state |-> s, count |-> count_monsters(s.dungeon)]

\* GameState.get_remaining_monster_count: the state after the call (the method
\* assigns no attribute) and the returned count.
get_remaining_monster_count(s) ==
    [state |-> s,
     count |-> count_monsters(s.dungeon) + count_monsters(s.current_room)]

\* for _ in range(n): self.current_room.append(self.dungeon.pop(0))
RECURSIVE deal_cards(_, _)
deal_cards(s, n) ==
    IF n <= 0 THEN s
    ELSE deal_cards([s EXCEPT !.current_room = Append(@, Head(s.dungeon)),
                              !.dungeon = Tail(@)], n - 1)

\* Variant of deal_room without the call of _check_victory.
deal_room_no_victory_check(s) ==
    LET kept == IF s.current_room # <<>> THEN <<s.current_room[1]>> ELSE <<>>
        s1 == [s EXCEPT !.potion_used_this_room = FALSE,
                        !.cards_played_this_room = 0,
                        !.current_room = kept]
        cards_to_deal == RoomSize - Len(s1.current_room)
    IN  IF cards_to_deal > Len(s1.dungeon)
        THEN [s1 EXCEPT !.current_room = @ \o s1.dungeon, !.dungeon = <<>>]
        ELSE deal_cards(s1, cards_to_deal)

\* Variant of deal_room that does not reset cards_played_this_room.
deal_room_keeps_count(s) ==
    LET kept == IF s.current_room # <<>> THEN <<s.current_room[1]>> ELSE <<>>
        s1 == [s EXCEPT !.potion_used_this_room = FALSE,
                        !.current_room = kept]
        cards_to_deal == RoomSize - Len(s1.current_room)
    IN  IF cards_to_deal > Len(s1.dungeon)
        THEN check_victory([s1 EXCEPT !.current_room = @ \o s1.dungeon,
                                      !.dungeon = <<>>])
        ELSE deal_cards(s1, cards_to_deal)

\* Variant of deal_room that does not reset potion_used_this_room.
deal_room_keeps_potion_flag(s) ==
    LET kept == IF s.current_room # <<>> THEN <<s.current_room[1]>> ELSE <<>>
        s1 == [s EXCEPT !.cards_played_this_room = 0,
                        !.current_room = kept]
        cards_to_deal == RoomSize - Len(s1.current_room)
    IN  IF cards_to_deal > Len(s1.dungeon)
        THEN check_victory([s1 EXCEPT !.current_room = @ \o s1.dungeon,
                                      !.dungeon = <<>>])
        ELSE deal_cards(s1, cards_to_deal)

\* GameState.deal_room
deal_room(s) ==
    LET kept == IF s.current_room # <<>> THEN <<s.current_room[1]>> ELSE <<>>
        s1 == [s EXCEPT !.potion_used_this_room = FALSE,
                        !.cards_played_this_room = 0,
                        !.current_room = kept]
        cards_to_deal == RoomSize - Len(s1.current_room)
    IN  IF cards_to_deal > Len(s1.dungeon)
        THEN check_victory([s1 EXCEPT !.current_room = @ \o s1.dungeon,
                                      !.dungeon = <<>>])
        ELSE deal_cards(s1, cards_to_deal)

\* Variant of __init__ that does not deal the first room.
new_game_without_room(shuffled) ==
    [player_health |-> MaxHealth,
     max_health |-> MaxHealth,
     equipped_weapon |-> None,
     current_room |-> <<>>,
     dungeon |-> shuffled,
     discard |-> <<>>,
     ran_last_room |-> FALSE,
     potion_used_this_room |-> FALSE,
     game_over |-> FALSE,
     victory |-> FALSE,
     cards_played_this_room |-> 0]

\* GameState.__init__ with random.shuffle producing the order `shuffled`.
new_game(shuffled) ==
    deal_room([player_health |-> MaxHealth,
               max_health |-> MaxHealth,
               equipped_weapon |-> None,
               current_room |-> <<>>,
               dungeon |-> shuffled,
               discard |-> <<>>,
               ran_last_room |-> FALSE,
               potion_used_this_room |-> FALSE,
               game_over |-> FALSE,
               victory |-> FALSE,
               cards_played_this_room |-> 0])

\* Variant of run_from_room that also puts the discard pile back.
run_from_room_recycles_discard(s) ==
    IF s.ran_last_room THEN [state |-> s, success |-> FALSE]
    ELSE IF s.cards_played_this_room > 0 THEN [state |-> s, success |-> FALSE]
    ELSE [state |-> deal_room([s EXCEPT !.dungeon = @ \o s.current_room \o s.discard,
                                        !.current_room = <<>>,
                                        !.discard = <<>>,
                                        !.ran_last_room = TRUE]),
          success |-> TRUE]

\* Variant of run_from_room that does not clear current_room.
run_from_room_keeps_room(s) ==
    IF s.ran_last_room THEN [state |-> s, success |-> FALSE]
    ELSE IF s.cards_played_this_room > 0 THEN [state |-> s, success |-> FALSE]
    ELSE [state |-> deal_room([s EXCEPT !.dungeon = @ \o s.current_room,
                                        !.ran_last_room = TRUE]),
          success |-> TRUE]

\* Variant of run_from_room without the cards_played_this_room test.
run_from_room_ignores_plays(s) ==
    IF s.ran_last_room THEN [state |-> s, success |-> FALSE]
    ELSE [state |-> deal_room([s EXCEPT !.dungeon = @ \o s.current_room,
                                        !.current_room = <<>>,
                                        !.ran_last_room = TRUE]),
          success |-> TRUE]

\* Variant of run_from_room that puts the room on top of the dungeon.
run_from_room_prepends(s) ==
    IF s.ran_last_room THEN [state |-> s, success |-> FALSE]
    ELSE IF s.cards_played_this_room > 0 THEN [state |-> s, success |-> FALSE]
    ELSE [state |-> deal_room([s EXCEPT !.dungeon = s.current_room \o @,
                                        !.current_room = <<>>,
                                        !.ran_last_room = TRUE]),
          success |-> TRUE]

\* Variant of run_from_room that does not set ran_last_room.
run_from_room_no_flag(s) ==
    IF s.ran_last_room THEN [state |-> s, success |-> FALSE]
    ELSE IF s.cards_played_this_room > 0 THEN [state |-> s, success |-> FALSE]
    ELSE [state |-> deal_room([s EXCEPT !.dungeon = @ \o s.current_room,
                                        !.current_room = <<>>]),
          success |-> TRUE]

\* GameState.run_from_room: the state after the call and the returned bool.
run_from_room(s) ==
    IF s.ran_last_room THEN [state |-> s, success |-> FALSE]
    ELSE IF s.cards_played_this_room > 0 THEN [state |-> s, success |-> FALSE]
    ELSE [state |-> deal_room([s EXCEPT !.dungeon = @ \o s.current_room,
                                        !.current_room = <<>>,
                                        !.ran_last_room = TRUE]),
          success |-> TRUE]

\* Variant of the game over test with < for <=.
is_defeated_strict(health) == health < 0

\* if self.player_health <= 0 (game.py:158)
is_defeated(health) == health <= 0

\* Variant of the weapon damage without the max.
weapon_damage_unclamped(monster, weapon_value) == monster.value - weapon_value

\* damage = max(0, monster.value - weapon_value) (game.py:149)
weapon_damage(monster, weapon_value) == Max(0, monster.value - weapon_value)

\* Variant of _handle_monster that records the monster on the equipped weapon
\* whether or not the weapon was used.
handle_monster_marks_always(s, monster, use_weapon) ==
    LET armed == s.equipped_weapon # None /\ use_weapon
        weapon_value == IF armed THEN s.equipped_weapon[1].card.value ELSE 0
        can_use_weapon == IF armed THEN can_defeat(s.equipped_weapon[1], monster)
                          ELSE FALSE
        damage == IF can_use_weapon THEN weapon_damage(monster, weapon_value)
                  ELSE monster.value
        s1 == IF s.equipped_weapon # None
              THEN [s EXCEPT !.equipped_weapon =
                        Some([@[1] EXCEPT !.last_monster_defeated = Some(monster)])]
              ELSE s
        s2 == [s1 EXCEPT !.player_health = @ - damage]
        how == IF can_use_weapon THEN "weapon" ELSE "barehanded"
    IN  IF is_defeated(s2.player_health)
        THEN [state |-> [s2 EXCEPT !.game_over = TRUE, !.victory = FALSE],
              message |-> Message(<<"defeated", how>>, damage)]
        ELSE [state |-> s2, message |-> Message(<<"fought", how>>, damage)]

\* GameState._handle_monster: the state after the call and the message.
handle_monster(s, monster, use_weapon) ==
    LET armed == s.equipped_weapon # None /\ use_weapon
        weapon_value == IF armed THEN s.equipped_weapon[1].card.value ELSE 0
        can_use_weapon == IF armed THEN can_defeat(s.equipped_weapon[1], monster)
                          ELSE FALSE
        damage == IF can_use_weapon THEN weapon_damage(monster, weapon_value)
                  ELSE monster.value
        s1 == IF can_use_weapon
              THEN [s EXCEPT !.equipped_weapon =
                        Some([@[1] EXCEPT !.last_monster_defeated = Some(monster)])]
              ELSE s
        s2 == [s1 EXCEPT !.player_health = @ - damage]
        how == IF can_use_weapon THEN "weapon" ELSE "barehanded"
    IN  IF is_defeated(s2.player_health)
        THEN [state |-> [s2 EXCEPT !.game_over = TRUE, !.victory = FALSE],
              message |-> Message(<<"defeated", how>>, damage)]
        ELSE [state |-> s2, message |-> Message(<<"fought", how>>, damage)]

\* Variant of _handle_weapon that keeps the old weapon's last_monster_defeated.
handle_weapon_keeps_durability(s, weapon_card) ==
    [state |-> [s EXCEPT !.equipped_weapon =
                   IF @ = None THEN Some(Weapon(weapon_card))
                   ELSE Some([@[1] EXCEPT !.card = weapon_card])],
     message |-> Message(<<"equipped", "weapon">>, weapon_card.value)]

\* GameState._handle_weapon
handle_weapon(s, weapon_card) ==
    [state |-> [s EXCEPT !.equipped_weapon = Some(Weapon(weapon_card))],
     message |-> Message(<<"equipped", "weapon">>, weapon_card.value)]

\* Variant of the healing without the cap at max_health.
healed_health_uncapped(s, potion) == s.player_health + potion.value

\* min(self.max_health, self.player_health + healing) (game.py:199)
healed_health(s, potion) == Min(s.max_health, s.player_health + potion.value)

\* GameState._handle_potion
handle_potion(s, potion) ==
    IF s.potion_used_this_room
    THEN [state |-> s, message |-> Message(<<"potion", "no effect">>, 0)]
    ELSE LET healed == healed_health(s, potion)
         IN  [state |-> [s EXCEPT !.player_health = healed,
                                  !.potion_used_this_room = TRUE],
              message |-> Message(<<"potion", "healed">>, healed - s.player_health)]

\* The dispatch on card.type in play_card (game.py:104-109).
resolve_card(s, card, use_weapon) ==
    IF CardType(card) = "MONSTER" THEN handle_monster(s, card, use_weapon)
    ELSE IF CardType(card) = "WEAPON" THEN handle_weapon(s, card)
    ELSE handle_potion(s, card)

\* Variant of the index check without the test for a negative index.
invalid_index_high_only(s, card_index) == card_index >= Len(s.current_room)

\* if card_index < 0 or card_index >= len(self.current_room) (game.py:97)
invalid_index(s, card_index) ==
    card_index < 0 \/ card_index >= Len(s.current_room)

\* Variant of the room-advance test that waits for a fourth play.
room_cleared_late(s) ==
    s.cards_played_this_room >= RoomAdvancePlays + 1 /\ Len(s.current_room) = 1

\* Variant of the room-advance test that fires after two plays.
room_cleared_early(s) == s.cards_played_this_room >= RoomAdvancePlays - 1

\* if self.cards_played_this_room >= 3 and len(self.current_room) == 1 (game.py:119)
room_cleared(s) ==
    s.cards_played_this_room >= RoomAdvancePlays /\ Len(s.current_room) = 1

\* Variant of play_card that runs _check_victory after every play.
play_card_checks_victory(s, card_index, use_weapon) ==
    IF invalid_index(s, card_index)
    THEN [state |-> s, message |-> Message(<<"invalid", "index">>, 0), success |-> FALSE]
    ELSE LET card == Item(s.current_room, card_index)
             r == resolve_card(s, card, use_weapon)
             s1 == [r.state EXCEPT !.current_room = Pop(@, card_index),
                                   !.discard = Append(@, card),
                                   !.cards_played_this_room = @ + 1]
         IN  IF room_cleared(s1)
             THEN [state |-> deal_room([s1 EXCEPT !.ran_last_room = FALSE]),
                   message |-> [r.message EXCEPT !.new_room = TRUE],
                   success |-> TRUE]
             ELSE [state |-> check_victory(s1), message |-> r.message,
                   success |-> TRUE]

\* GameState.play_card: the state after the call, the message and the success flag.
play_card(s, card_index, use_weapon) ==
    IF invalid_index(s, card_index)
    THEN [state |-> s, message |-> Message(<<"invalid", "index">>, 0), success |-> FALSE]
    ELSE LET card == Item(s.current_room, card_index)
             r == resolve_card(s, card, use_weapon)
             s1 == [r.state EXCEPT !.current_room = Pop(@, card_index),
                                   !.discard = Append(@, card),
                                   !.cards_played_this_room = @ + 1]
         IN  IF room_cleared(s1)
             THEN [state |-> deal_room([s1 EXCEPT !.ran_last_room = FALSE]),
                   message |-> [r.message EXCEPT !.new_room = TRUE],
                   success |-> TRUE]
             ELSE [state |-> s1, message |-> r.message, success |-> TRUE]

-----------------------------------------------------------------------------
(* The orders random.shuffle may leave the dungeon in.  Every permutation  *)
(* of the deck is possible; the model constructs games from the rotations  *)
(* of one permutation, ScriptOrder.  Played from the front (index 0, with  *)
(* the weapon), ScriptOrder keeps the player alive for 36 plays and ends   *)
(* with two monsters, three weapons and three potions.  Shuffle(1) opens   *)
(* with those eight cards, Shuffle(2) with a room of four monsters.        *)

C(v) == Card("CLUBS", v)
S(v) == Card("SPADES", v)
D(v) == Card("DIAMONDS", v)
H(v) == Card("HEARTS", v)

ScriptOrder ==
    << D(4),  D(5),  D(6),    D(7),  D(9),  C(14),   C(13), H(10), C(12),
       C(11), C(10), H(9),    C(9),  C(8),  C(7),    C(6),  C(5),  C(4),
       C(3),  C(2),  D(8),    S(13), H(8),  S(11),   S(10), S(9),  H(7),
       S(8),  S(7),  S(6),    S(5),  S(4),  S(3),    S(2),  H(6),  H(5),
       S(14), D(10), S(12),   H(2),  H(3),  D(2),    H(4),  D(3) >>

Rotate(cards, k) ==
    [i \in 1..Len(cards) |-> cards[((i - 1 + k) % Len(cards)) + 1]]

Shuffle(k) == Rotate(ScriptOrder, 36 * k)

IsPermutation(a, b) ==
    /\ Len(a) = Len(b)
    /\ \A i \in 1..Len(b) : Cardinality({j \in 1..Len(a) : a[j] = b[i]}) = 1

\* The caller that plays the first card of the room, with the weapon, n times
\* (while the room has a card).
RECURSIVE auto_play(_, _)
auto_play(s, n) ==
    IF n <= 0 \/ s.current_room = <<>> THEN s
    ELSE auto_play(play_card(s, 0, TRUE).state, n - 1)

-----------------------------------------------------------------------------
(* The state machine *)

IndexInputs == -1..RoomSize

\* ScoundrelApp before any combat dialog was shown: _combat_card_index and
\* _current_dialog_id are not set, no dialog is mounted.
NoDialog == [combat_card_index |-> None, dialogs |-> <<>>, current_shown |-> FALSE]

\* What GameState() returns is the object itself; no call has returned yet.
NoReturn == [call |-> "__init__", success |-> TRUE,
             message |-> Message(<<"none", "none">>, 0)]

Init ==
    /\ \E k \in 0..(NumShuffles - 1) :
          /\ IsPermutation(Shuffle(k), build_deck)
          /\ game_state = new_game(Shuffle(k))
    /\ ret = NoReturn
    /\ left = MaxCalls
    /\ room_events = <<>>
    /\ app = NoDialog
    /\ option_events = None

\* The engine state a game constructed from ScriptOrder is in after
\* LatePlays calls play_card(0, True).
InitLate ==
    /\ IsPermutation(ScriptOrder, build_deck)
    /\ game_state = auto_play(new_game(ScriptOrder), LatePlays)
    /\ ret = NoReturn
    /\ left = LateCalls
    /\ room_events = <<>>
    /\ app = NoDialog
    /\ option_events = None

\* game_state.play_card(card_index, use_weapon)
PlayCard(card_index, use_weapon) ==
    LET r == play_card(game_state, card_index, use_weapon)
    IN  /\ r.success => left > 0
        /\ game_state' = r.state
        /\ ret' = [call |-> "play_card", success |-> r.success, message |-> r.message]
        /\ left' = IF r.success THEN left - 1 ELSE left
        /\ room_events' =
              IF r.message.new_room THEN Append(room_events, "advance") ELSE room_events
        /\ UNCHANGED <<app, option_events>>

\* game_state.run_from_room()
RunFromRoom ==
    LET r == run_from_room(game_state)
    IN  /\ r.success => left > 0
        /\ game_state' = r.state
        /\ ret' = [call |-> "run_from_room", success |-> r.success,
                   message |-> Message(<<"none", "none">>, 0)]
        /\ left' = IF r.success THEN left - 1 ELSE left
        /\ room_events' =
              IF r.success THEN Append(room_events, "run") ELSE room_events
        /\ UNCHANGED <<app, option_events>>

Next ==
    \/ \E card_index \in IndexInputs, use_weapon \in BOOLEAN :
          PlayCard(card_index, use_weapon)
    \/ RunFromRoom

\* Games from construction.
Spec == Init /\ [][Next]_vars

\* The end of a game.
SpecLate == InitLate /\ [][Next]_vars

\* Both: the first calls of a game and its last ones.
SpecAll == (Init \/ InitLate) /\ [][Next]_vars

\* The caller that, like ScoundrelApp.action_run and ScoundrelApp.play_card
\* (tui.py:438, tui.py:464), calls the engine only while game_over is false.
NextGated ==
    \/ /\ ~game_state.game_over
       /\ \E card_index \in IndexInputs, use_weapon \in BOOLEAN :
             PlayCard(card_index, use_weapon)
    \/ /\ ~game_state.game_over
       /\ RunFromRoom

SpecGated == (Init \/ InitLate) /\ [][NextGated]_vars

\* A shuffle that opens on a fight: a weapon of 3, monsters of 5, 7 and 5,
\* then a monster of 2 below the weapon, a second weapon and two potions;
\* the other 36 cards follow in the order Deck._build_deck made them.
DuelFront == << D(3), C(5), S(7), S(5), C(2), D(4), H(10), H(9) >>

DuelOrder ==
    DuelFront \o SelectSeq(build_deck,
                           LAMBDA c : \A i \in 1..Len(DuelFront) : DuelFront[i] # c)

InitDuel ==
    /\ IsPermutation(DuelOrder, build_deck)
    /\ game_state = new_game(DuelOrder)
    /\ ret = NoReturn
    /\ left = MaxCalls
    /\ room_events = <<>>
    /\ app = NoDialog
    /\ option_events = None

\* The first calls of four games and the last calls of one.
SpecFull == (Init \/ InitLate \/ InitDuel) /\ [][Next]_vars

-----------------------------------------------------------------------------
(* tui.py: ScoundrelApp, as far as it calls the engine.  The widgets are   *)
(* not modelled; an event may arrive in any state, a combat dialog may be  *)
(* answered for any card index it was opened on.                           *)

\* Variant of the guard that lets every event through.
engine_call_allowed_always(s) == TRUE

\* if not self.game_state.game_over (tui.py:438, tui.py:464)
engine_call_allowed(s) == ~s.game_over

\* The card indexes a card button or an open combat dialog can carry.
ButtonIndexes == 0..(RoomSize - 1)

\* ScoundrelApp.action_run (key r, the run button)
ActionRun ==
    IF engine_call_allowed(game_state) THEN RunFromRoom ELSE UNCHANGED vars

\* ScoundrelApp.play_card, called for a card button (use_weapon defaults to
\* True) or for the choice made in the combat dialog.
AppPlayCard(card_index, use_weapon) ==
    IF engine_call_allowed(game_state) THEN PlayCard(card_index, use_weapon)
    ELSE UNCHANGED vars

\* ScoundrelApp.action_new_game (key n, the new game button): a new
\* GameState replaces the old one.  Each new game uses up one call of the
\* budget and starts with at most the budget of a constructed game.
ActionNewGame ==
    /\ left > 0
    /\ \E k \in 0..(NumShuffles - 1) : game_state' = new_game(Shuffle(k))
    /\ ret' = NoReturn
    /\ left' = Min(left, MaxCalls) - 1
    /\ room_events' = <<>>
    /\ UNCHANGED <<app, option_events>>

NextApp ==
    \/ ActionRun
    \/ \E card_index \in ButtonIndexes, use_weapon \in BOOLEAN :
          AppPlayCard(card_index, use_weapon)
    \/ ActionNewGame

SpecApp == (Init \/ InitLate \/ InitDuel) /\ [][NextApp]_vars

(* tui.py: the combat dialog.  A dialog is a Container mounted on the game *)
(* container; the card buttons, the run and new game buttons and the key   *)
(* bindings stay in place while it is shown, and update_ui does not remove *)
(* it.  app.dialogs are the dialogs mounted, oldest first, each with the   *)
(* monster in its title and whether it offers the weapon;                  *)
(* app.current_shown tells whether the dialog named by _current_dialog_id  *)
(* (the last one shown) is still mounted.                                  *)

\* Dialogs mounted at the same time.
MaxDialogs == 2

\* ScoundrelApp.show_combat_options(card_index).  The dialog it tries to
\* remove first, "#combat_dialog", never exists (the ids are
\* combat_dialog_<timestamp>), so the dialogs already shown stay.
ShowCombatOptions(card_index) ==
    LET monster == Item(game_state.current_room, card_index)
        can_use_weapon == IF game_state.equipped_weapon # None
                          THEN can_defeat(game_state.equipped_weapon[1], monster)
                          ELSE FALSE
    IN  /\ Len(app.dialogs) < MaxDialogs
        /\ app' = [combat_card_index |-> Some(card_index),
                   dialogs |-> Append(app.dialogs,
                                      [monster |-> monster,
                                       can_use_weapon |-> can_use_weapon]),
                   current_shown |-> TRUE]
        /\ UNCHANGED <<game_state, ret, left, room_events, option_events>>

\* ScoundrelApp.on_button_pressed for the button card_<card_index>.  The
\* buttons are those of the room at the last update_ui, which follows every
\* accepted call; show_game_over removes them.
CardButton(card_index) ==
    /\ ~game_state.game_over
    /\ card_index < Len(game_state.current_room)
    /\ IF /\ CardType(Item(game_state.current_room, card_index)) = "MONSTER"
          /\ game_state.equipped_weapon # None
       THEN ShowCombatOptions(card_index)
       ELSE AppPlayCard(card_index, TRUE)

\* The options of a dialog that can be selected ("weapon_disabled" is
\* disabled).
OptionIds(dialog) ==
    (IF dialog.can_use_weapon THEN {"use_weapon"} ELSE {}) \cup {"barehanded", "cancel"}

\* The dialogs left after the removal of the one named by _current_dialog_id.
remove_current_dialog(a) ==
    IF a.current_shown THEN SubSeq(a.dialogs, 1, Len(a.dialogs) - 1) ELSE a.dialogs

\* ScoundrelApp.on_option_list_option_selected for option option_id of the
\* d-th dialog mounted.
OptionSelected(d, option_id) ==
    LET card_index == app.combat_card_index[1]
        use_weapon == option_id = "use_weapon"
        plays == option_id # "cancel" /\ engine_call_allowed(game_state)
        r == play_card(game_state, card_index, use_weapon)
    IN  /\ option_id \in OptionIds(app.dialogs[d])
        /\ app' = [app EXCEPT !.dialogs = remove_current_dialog(app),
                              !.current_shown = FALSE]
        /\ IF plays
           THEN /\ r.success => left > 0
                /\ game_state' = r.state
                /\ ret' = [call |-> "play_card", success |-> r.success,
                           message |-> r.message]
                /\ left' = IF r.success THEN left - 1 ELSE left
                /\ room_events' =
                      IF r.message.new_room THEN Append(room_events, "advance")
                      ELSE room_events
           ELSE UNCHANGED <<game_state, ret, left, room_events>>
        /\ option_events' =
              IF option_id = "cancel" THEN option_events
              ELSE Some([monster |-> app.dialogs[d].monster,
                         resolved |-> IF plays /\ r.success
                                      THEN Some(Item(game_state.current_room, card_index))
                                      ELSE None])

NextDialog ==
    \/ \E card_index \in ButtonIndexes : CardButton(card_index)
    \/ \E d \in 1..Len(app.dialogs) :
          \E option_id \in {"use_weapon", "barehanded", "cancel"} :
             OptionSelected(d, option_id)
    \/ ActionRun
    \/ ActionNewGame

SpecDialog == InitDuel /\ [][NextDialog]_vars

-----------------------------------------------------------------------------
(* Properties *)

health == game_state.player_health
room == game_state.current_room
dungeon == game_state.dungeon
discard == game_state.discard

IsMonsterSuit(card) == card.suit = "CLUBS" \/ card.suit = "SPADES"

PlayReturned == ret.call = "play_card"
RunReturned == ret.call = "run_from_room"

\* C1: after construction and after every play_card and run_from_room call,
\* accepted or rejected, each of the 44 cards of the deck is in exactly one of
\* discard, dungeon and current_room, and the three lengths add up to 44.
C1_Conservation ==
    /\ Len(discard) + Len(dungeon) + Len(room) = 44
    /\ \A i \in 1..Len(build_deck) :
          Cardinality({j \in 1..Len(discard) : discard[j] = build_deck[i]})
            + Cardinality({j \in 1..Len(dungeon) : dungeon[j] = build_deck[i]})
            + Cardinality({j \in 1..Len(room) : room[j] = build_deck[i]}) = 1

\* A room was cleared, the next one was fled, and a call was then rejected.
C1_Witness ==
    /\ Len(discard) >= 3
    /\ game_state.ran_last_room
    /\ ~ret.success

\* C2: whenever an engine operation has returned, player_health <= 0 implies
\* game_over = true and victory = false.
C2_DeadIsLost ==
    health <= 0 => (game_state.game_over /\ ~game_state.victory)

\* C3: victory = true implies game_over = true and no Clubs or Spades card in
\* dungeon or current_room.
C3_VictoryMeansNoMonsters ==
    game_state.victory =>
        /\ game_state.game_over
        /\ \A i \in 1..Len(dungeon) : ~IsMonsterSuit(dungeon[i])
        /\ \A i \in 1..Len(room) : ~IsMonsterSuit(room[i])

\* The final deal declared a living player victorious.
C3_Witness ==
    /\ game_state.victory
    /\ health > 0
    /\ dungeon = <<>>
    /\ room # <<>>

\* C4: once game_over is true, no play_card or run_from_room call changes any
\* field of the game state.
C4_TerminalIsFrozen ==
    [][game_state.game_over => game_state' = game_state]_vars

\* C5: player_health is never negative.
C5_HealthNeverNegative == health >= 0

\* C5 as amended: player_health is at least 1 while game_over is false; a
\* monster that deals more damage than the player has health leaves
\* player_health negative, with game_over true.
C5_AliveWhileNotOver ==
    /\ ~game_state.game_over => health >= 1
    /\ health < 0 => game_state.game_over

\* A monster dealt more damage than the player had health.
C5_Witness ==
    /\ PlayReturned
    /\ ret.message.kind[1] = "defeated"
    /\ health < 0
    /\ game_state.game_over

\* C6: play_card with an index outside 0..len(current_room)-1 returns
\* success = false and leaves the game state unchanged, for every reachable
\* state, every such index and either value of use_weapon.
C6_InvalidIndexRejected ==
    \A card_index \in IndexInputs, use_weapon \in BOOLEAN :
        (card_index < 0 \/ card_index > Len(room) - 1) =>
            LET r == play_card(game_state, card_index, use_weapon)
            IN  ~r.success /\ r.state = game_state

\* A play_card call on an empty room has been rejected.
C6_Witness ==
    /\ PlayReturned
    /\ ~ret.success
    /\ room = <<>>

\* C7: a run_from_room call returns false and changes nothing when
\* ran_last_room is true or cards_played_this_room > 0, and returns true
\* otherwise.
C7_RunRejectedOrAccepted ==
    [][RunReturned' =>
          IF game_state.ran_last_room \/ game_state.cards_played_this_room > 0
          THEN ~ret'.success /\ game_state' = game_state
          ELSE ret'.success]_vars

\* A second run in a row has been rejected.
C7_Witness ==
    /\ RunReturned
    /\ ~ret.success
    /\ game_state.ran_last_room
    /\ game_state.cards_played_this_room = 0

\* C8: a successful run_from_room puts the room's cards, in room order, at the
\* back of the dungeon, sets ran_last_room and deals the new room from the
\* front of that dungeon; discard, player_health and equipped_weapon are
\* unchanged; if the dungeon held at least 4 cards, no card of the fled room
\* is in the new room.
C8_RunRecirculates ==
    [][(RunReturned' /\ ret'.success) =>
          LET pile == dungeon \o room
              n == IF Len(pile) < 4 THEN Len(pile) ELSE 4
          IN  /\ game_state'.current_room = SubSeq(pile, 1, n)
              /\ game_state'.dungeon = SubSeq(pile, n + 1, Len(pile))
              /\ game_state'.ran_last_room
              /\ game_state'.discard = discard
              /\ game_state'.player_health = health
              /\ game_state'.equipped_weapon = game_state.equipped_weapon
              /\ Len(dungeon) >= 4 =>
                    \A i \in 1..Len(room), j \in 1..Len(game_state'.current_room) :
                        room[i] # game_state'.current_room[j]]_vars

\* A full room was fled and four other cards were dealt.
C8_Witness ==
    /\ RunReturned
    /\ ret.success
    /\ Len(room) = 4
    /\ Len(dungeon) >= 4

\* C9: no two successful runs follow each other without a room-advance in
\* between, and a run succeeds only when no card of the room has been played.
C9_OneRunPerRoom ==
    [][(RunReturned' /\ ret'.success) =>
          /\ game_state.cards_played_this_room = 0
          /\ room_events # <<>> => room_events[Len(room_events)] = "advance"]_vars

\* A run, a room-advance and a second run have happened.
C9_Witness ==
    \E i \in 1..Len(room_events) :
        /\ i + 2 <= Len(room_events)
        /\ room_events[i] = "run"
        /\ room_events[i + 1] = "advance"
        /\ room_events[i + 2] = "run"

\* The room without the card that the call has moved to the end of discard.
Unplayed(cards, played) == SelectSeq(cards, LAMBDA c : c # played)

\* C10: in a room that started with 4 cards, the third successful play_card
\* deals a new room, the unplayed card first and then the next cards of the
\* dungeon in order, and leaves cards_played_this_room = 0,
\* potion_used_this_room = false and ran_last_room = false; the first and the
\* second play deal nothing.
C10_ThirdPlayAdvances ==
    [][(PlayReturned' /\ ret'.success
            /\ Len(room) + game_state.cards_played_this_room = 4) =>
          LET played == game_state'.discard[Len(game_state'.discard)]
              rest == Unplayed(room, played)
              n == IF Len(dungeon) < 3 THEN Len(dungeon) ELSE 3
          IN  IF game_state.cards_played_this_room = 2
              THEN /\ game_state'.current_room = <<rest[1]>> \o SubSeq(dungeon, 1, n)
                   /\ game_state'.dungeon = SubSeq(dungeon, n + 1, Len(dungeon))
                   /\ game_state'.cards_played_this_room = 0
                   /\ ~game_state'.potion_used_this_room
                   /\ ~game_state'.ran_last_room
              ELSE /\ game_state'.current_room = rest
                   /\ game_state'.dungeon = dungeon
                   /\ game_state'.cards_played_this_room
                         = game_state.cards_played_this_room + 1]_vars

\* The third play of a room fled into has dealt the next room.
C10_Witness ==
    /\ PlayReturned
    /\ ret.message.new_room
    /\ Len(room_events) >= 2
    /\ room_events[Len(room_events) - 1] = "run"
    /\ Len(room) = 4

\* The list without its element at Python index i (0-based).
Without(cards, i) ==
    [j \in 1..(Len(cards) - 1) |-> IF j <= i THEN cards[j] ELSE cards[j + 1]]

\* C11: a successful play_card(i) removes exactly the card at index i from
\* current_room, appends that card to the end of discard, keeps the other room
\* cards in their relative order (the new room, when the play deals one,
\* begins with them) and counts one played card (the count the third play
\* reaches is reset by the deal it triggers); this for monsters, lethal ones
\* included, weapons and potions, ineffective ones included.
C11_PlayMovesCard ==
    \A card_index \in 0..(Len(room) - 1), use_weapon \in BOOLEAN :
        LET r == play_card(game_state, card_index, use_weapon)
            rest == Without(room, card_index)
        IN  /\ r.success
            /\ r.state.discard = Append(discard, room[card_index + 1])
            /\ Len(r.state.current_room) >= Len(rest)
            /\ SubSeq(r.state.current_room, 1, Len(rest)) = rest
            /\ IF r.message.new_room
               THEN /\ game_state.cards_played_this_room + 1 >= RoomAdvancePlays
                    /\ r.state.cards_played_this_room = 0
               ELSE /\ r.state.current_room = rest
                    /\ r.state.cards_played_this_room
                          = game_state.cards_played_this_room + 1

\* A potion without effect was played while other cards stayed in the room,
\* and lies on top of discard.
C11_Witness ==
    /\ PlayReturned
    /\ ret.success
    /\ ret.message.kind = <<"potion", "no effect">>
    /\ discard[Len(discard)].suit = "HEARTS"
    /\ room # <<>>

weapon == game_state.equipped_weapon

Monsters == {build_deck[i] : i \in {j \in 1..Len(build_deck) :
                                        CardType(build_deck[j]) = "MONSTER"}}

\* The condition under which the weapon is used against `monster`.
WeaponApplies(use_weapon, monster) ==
    /\ use_weapon
    /\ weapon # None
    /\ \/ weapon[1].last_monster_defeated = None
       \/ monster.value < weapon[1].last_monster_defeated[1].value

\* C12: a played monster is fought with the weapon exactly when use_weapon is
\* true, a weapon is equipped and the weapon has no last_monster_defeated or
\* the monster's value is strictly lower than last_monster_defeated's; a
\* fresh weapon can be used against every monster of value 2..14, and a
\* monster of equal or higher value is fought barehanded.
C12_WeaponUsedIff ==
    /\ \A card_index \in 0..(Len(room) - 1), use_weapon \in BOOLEAN :
          CardType(room[card_index + 1]) = "MONSTER" =>
              LET monster == room[card_index + 1]
                  r == play_card(game_state, card_index, use_weapon)
                  marked == /\ r.state.equipped_weapon # None
                            /\ r.state.equipped_weapon[1].last_monster_defeated
                                  = Some(monster)
              IN  /\ (r.message.kind[2] = "weapon") <=> WeaponApplies(use_weapon, monster)
                  /\ marked <=> WeaponApplies(use_weapon, monster)
    /\ {m.value : m \in Monsters} = 2..14
    /\ weapon # None =>
          \A monster \in Monsters :
              /\ can_defeat(Weapon(weapon[1].card), monster)
              /\ weapon[1].last_monster_defeated # None =>
                    (can_defeat(weapon[1], monster)
                        <=> monster.value < weapon[1].last_monster_defeated[1].value)

\* With a weapon equipped that last defeated a monster, a monster of that
\* same value has been fought barehanded.
C12_Witness ==
    /\ PlayReturned
    /\ ret.message.kind[2] = "barehanded"
    /\ weapon # None
    /\ weapon[1].last_monster_defeated # None
    /\ weapon[1].last_monster_defeated[1].value = discard[Len(discard)].value
    /\ IsMonsterSuit(discard[Len(discard)])

\* C13: playing a monster lowers player_health by exactly
\* max(0, monster.value - weapon.value) when the weapon is used and by exactly
\* monster.value otherwise; the damage is never negative, so player_health
\* does not rise; with health 20 and a weapon of 3, a monster of 5 fought with
\* the weapon leaves 18 and a monster of 7 fought barehanded then leaves 11.
C13_MonsterDamage ==
    /\ \A card_index \in 0..(Len(room) - 1), use_weapon \in BOOLEAN :
          CardType(room[card_index + 1]) = "MONSTER" =>
              LET monster == room[card_index + 1]
                  r == play_card(game_state, card_index, use_weapon)
                  damage == IF WeaponApplies(use_weapon, monster)
                            THEN Max(0, monster.value - weapon[1].card.value)
                            ELSE monster.value
              IN  /\ damage >= 0
                  /\ r.message.amount = damage
                  /\ r.state.player_health = health - damage
                  /\ r.state.player_health <= health
    /\ LET s0 == [new_game(DuelOrder) EXCEPT !.equipped_weapon = Some(Weapon(D(3)))]
           r1 == handle_monster(s0, C(5), TRUE)
           r2 == handle_monster(r1.state, S(7), FALSE)
       IN  /\ s0.player_health = 20
           /\ r1.state.player_health = 18
           /\ r2.state.player_health = 11

\* The example as played: weapon 3 equipped, monster 5 fought with it, monster
\* 7 fought barehanded, health 11.
C13_Witness ==
    /\ PlayReturned
    /\ discard = <<D(3), C(5), S(7)>>
    /\ ret.message.kind = <<"fought", "barehanded">>
    /\ ret.message.amount = 7
    /\ health = 11

\* A monster weaker than the weapon has been fought with it, for no damage.
C13_WitnessNoDamage ==
    /\ PlayReturned
    /\ ret.message.kind = <<"fought", "weapon">>
    /\ ret.message.amount = 0
    /\ weapon # None
    /\ discard[Len(discard)].value < weapon[1].card.value

\* C14: while one weapon stays equipped, the values of its successive
\* last_monster_defeated are strictly decreasing: a call that changes the
\* last_monster_defeated of the weapon that stays equipped sets it to a
\* monster of strictly lower value.
C14_DurabilityDecreases ==
    [][(/\ weapon # None
        /\ game_state'.equipped_weapon # None
        /\ game_state'.equipped_weapon[1].card = weapon[1].card
        /\ weapon[1].last_monster_defeated # None
        /\ game_state'.equipped_weapon[1].last_monster_defeated
              # weapon[1].last_monster_defeated) =>
          /\ game_state'.equipped_weapon[1].last_monster_defeated # None
          /\ game_state'.equipped_weapon[1].last_monster_defeated[1].value
                < weapon[1].last_monster_defeated[1].value]_vars

\* The weapon of 3 defeated the monster of 5 (health 20 - 2 - 5 for the
\* monster fought barehanded in between) and then the monster of 2.
C14_Witness ==
    /\ weapon = Some([card |-> D(3), last_monster_defeated |-> Some(C(2))])
    /\ discard[2] = C(5)
    /\ health = 13

\* C15: a monster fought barehanded, a potion play, a run_from_room call
\* (successful or rejected), the room deal inside a call and a rejected
\* play_card leave the equipped weapon, card and last_monster_defeated,
\* unchanged; the weapon changes only by a Weapon card being equipped or by a
\* weapon-assisted fight, which sets last_monster_defeated to the monster
\* fought.
C15_WeaponFrame ==
    [][/\ (\/ RunReturned'
           \/ ~ret'.success
           \/ ret'.message.kind[2] = "barehanded"
           \/ ret'.message.kind[1] = "potion") =>
              game_state'.equipped_weapon = weapon
       /\ game_state'.equipped_weapon # weapon =>
              /\ PlayReturned'
              /\ ret'.success
              /\ \/ ret'.message.kind = <<"equipped", "weapon">>
                 \/ /\ ret'.message.kind[1] \in {"fought", "defeated"}
                    /\ ret'.message.kind[2] = "weapon"
                    /\ weapon # None
                    /\ LET played == game_state'.discard[Len(game_state'.discard)]
                       IN  /\ CardType(played) = "MONSTER"
                           /\ game_state'.equipped_weapon =
                                 Some([weapon[1] EXCEPT
                                          !.last_monster_defeated = Some(played)])]_vars

\* A monster has been fought barehanded, and the room advanced, while a
\* weapon that has defeated nothing stayed equipped.
C15_Witness ==
    /\ PlayReturned
    /\ ret.message.kind[2] = "barehanded"
    /\ ret.message.new_room
    /\ weapon # None
    /\ weapon[1].last_monster_defeated = None

\* How many times `card` occurs in `cards`.
Count(cards, card) == Cardinality({j \in 1..Len(cards) : cards[j] = card})

\* What playing the Weapon card at card_index does to the weapon, the health
\* and the previously equipped card.
WeaponEquipped(r, card_index) ==
    /\ r.state.equipped_weapon = Some(Weapon(room[card_index + 1]))
    /\ r.state.equipped_weapon[1].last_monster_defeated = None
    /\ r.state.player_health = health
    /\ weapon # None =>
          /\ Count(r.state.discard, weapon[1].card) = Count(discard, weapon[1].card)
          /\ Count(r.state.dungeon, weapon[1].card) = Count(dungeon, weapon[1].card)
          /\ Count(r.state.current_room, weapon[1].card) = Count(room, weapon[1].card)

\* C16: playing a Weapon card makes it the equipped weapon with no
\* last_monster_defeated, whatever was equipped before, changes neither
\* player_health nor potion_used_this_room, and moves the previously equipped
\* card to or from no pile.
C16_WeaponPlayKeepsPotionFlag ==
    \A card_index \in 0..(Len(room) - 1), use_weapon \in BOOLEAN :
        CardType(room[card_index + 1]) = "WEAPON" =>
            LET r == play_card(game_state, card_index, use_weapon)
            IN  /\ WeaponEquipped(r, card_index)
                /\ r.state.potion_used_this_room = game_state.potion_used_this_room

\* C16 as amended: the same, except that potion_used_this_room is unchanged
\* only when the play deals no room; a Weapon card played as the third card
\* of a room is followed in the same call by the room deal, which leaves
\* potion_used_this_room false.
C16_WeaponPlay ==
    \A card_index \in 0..(Len(room) - 1), use_weapon \in BOOLEAN :
        CardType(room[card_index + 1]) = "WEAPON" =>
            LET r == play_card(game_state, card_index, use_weapon)
            IN  /\ WeaponEquipped(r, card_index)
                /\ r.state.potion_used_this_room =
                      IF r.message.new_room THEN FALSE
                      ELSE game_state.potion_used_this_room

\* A Weapon card was played third in a room where a potion had been played
\* just before, replacing an earlier weapon; the next room is dealt and
\* potion_used_this_room is false.
C16_Witness ==
    /\ PlayReturned
    /\ ret.message.kind = <<"equipped", "weapon">>
    /\ ret.message.new_room
    /\ Len(discard) >= 2
    /\ discard[Len(discard) - 1].suit = "HEARTS"
    /\ \E j \in 1..(Len(discard) - 1) : discard[j].suit = "DIAMONDS"
    /\ weapon = Some(Weapon(discard[Len(discard)]))
    /\ ~game_state.potion_used_this_room

\* The cards played since the last room deal: the last
\* cards_played_this_room cards of discard.
PlayedThisRoom ==
    SubSeq(discard, Len(discard) - game_state.cards_played_this_room + 1,
           Len(discard))

\* C17: between two consecutive room deals at most one potion play changes
\* player_health: potion_used_this_room tells whether a potion was played
\* since the last deal; a potion played while it is false heals (to
\* min(max_health, health + value)) and a potion played while it is true
\* leaves player_health unchanged whatever its value; the flag is false again
\* once the next room is dealt.
C17_OnePotionPerRoom ==
    /\ game_state.potion_used_this_room <=>
          \E j \in 1..Len(PlayedThisRoom) : CardType(PlayedThisRoom[j]) = "POTION"
    /\ \A card_index \in 0..(Len(room) - 1), use_weapon \in BOOLEAN :
          CardType(room[card_index + 1]) = "POTION" =>
              LET potion == room[card_index + 1]
                  r == play_card(game_state, card_index, use_weapon)
              IN  /\ r.state.player_health =
                        IF game_state.potion_used_this_room THEN health
                        ELSE Min(game_state.max_health, health + potion.value)
                  /\ r.state.potion_used_this_room = ~r.message.new_room

\* A potion was played in one room; in the next room, with the game still on,
\* a first potion and then a second were played, the second without effect.
C17_Witness ==
    /\ PlayReturned
    /\ ret.message.kind = <<"potion", "no effect">>
    /\ ~game_state.game_over
    /\ game_state.cards_played_this_room = 2
    /\ game_state.potion_used_this_room
    /\ Len(discard) >= 4
    /\ discard[Len(discard) - 1].suit = "HEARTS"
    /\ discard[Len(discard) - 3].suit = "HEARTS"

\* C18: player_health never exceeds max_health and max_health stays 20; a
\* potion that takes effect sets player_health to
\* min(20, player_health + potion.value), and no other operation (no other
\* play_card, no run_from_room) raises player_health.
C18_HealthCapped ==
    /\ health <= game_state.max_health
    /\ game_state.max_health = 20
    /\ run_from_room(game_state).state.player_health <= health
    /\ \A card_index \in IndexInputs, use_weapon \in BOOLEAN :
          LET r == play_card(game_state, card_index, use_weapon)
          IN  /\ r.state.max_health = 20
              /\ r.message.kind = <<"potion", "healed">> =>
                    r.state.player_health =
                        Min(20, health + Item(room, card_index).value)
              /\ r.state.player_health > health =>
                    r.message.kind = <<"potion", "healed">>

\* A potion worth more than the missing health has healed up to 20.
C18_Witness ==
    /\ PlayReturned
    /\ ret.message.kind = <<"potion", "healed">>
    /\ ret.message.amount > 0
    /\ ret.message.amount < discard[Len(discard)].value
    /\ health = 20

\* C19: whenever the room deal of a call (the third play of a room, a
\* successful run) leaves the dungeon empty and no Monster card is in dungeon
\* or current_room after it, game_over and victory are true when the call
\* returns.
C19_EmptyingDealChecksVictory ==
    [][(/\ \/ PlayReturned' /\ ret'.message.new_room
           \/ RunReturned' /\ ret'.success
        /\ game_state'.dungeon = <<>>
        /\ ~HasMonster(game_state'.current_room)) =>
          (game_state'.game_over /\ game_state'.victory)]_vars

\* The third play of a room has dealt the last card of the dungeon into a
\* room without monsters, and the game is won.
C19_Witness ==
    /\ PlayReturned
    /\ ret.message.new_room
    /\ dungeon = <<>>
    /\ Len(room) = 2
    /\ ~HasMonster(room)
    /\ game_state.game_over
    /\ game_state.victory

\* C20: a living player who has resolved every monster is not left without a
\* declared victory: at the latest when the remaining cards have been played
\* (dungeon and current_room are empty), game_over and victory are true.
C20_SurvivorWins ==
    (health > 0 /\ dungeon = <<>> /\ room = <<>>) =>
        (game_state.game_over /\ game_state.victory)

\* C21: victory changes from false to true only in a call whose room deal
\* asked for more cards than the dungeon held (3 beside the kept card on a
\* room-advance, 4 from the dungeon extended by the fled room on a run) and
\* left the dungeon empty; a play_card that deals no room and a rejected call
\* never set victory.
C21_VictoryOnlyByShortDeal ==
    [][(~game_state.victory /\ game_state'.victory) =>
          /\ ret'.success
          /\ game_state'.dungeon = <<>>
          /\ \/ /\ PlayReturned'
                /\ ret'.message.new_room
                /\ RoomSize - 1 > Len(dungeon)
             \/ /\ RunReturned'
                /\ RoomSize > Len(dungeon) + Len(room)]_vars

\* The room-advance that dealt the last card of the dungeon has set victory,
\* with 42 cards discarded.
C21_Witness ==
    /\ game_state.victory
    /\ PlayReturned
    /\ ret.message.new_room
    /\ dungeon = <<>>
    /\ Len(discard) = 42

\* The last monster has been played from the final room, the player lives,
\* no room was dealt and victory is still false.
C21_WitnessNoDeal ==
    /\ PlayReturned
    /\ ret.success
    /\ ~ret.message.new_room
    /\ IsMonsterSuit(discard[Len(discard)])
    /\ ~HasMonster(room)
    /\ dungeon = <<>>
    /\ health > 0
    /\ ~game_state.victory

\* The shuffle orders games are constructed from here, and the deck as built.
ShuffleOrders ==
    {Shuffle(k) : k \in 0..(NumShuffles - 1)} \cup {DuelOrder, build_deck}

\* What C22 says of the game constructed from the order `shuffled`.
FreshGame(g, shuffled) ==
    /\ g.player_health = 20
    /\ g.max_health = 20
    /\ g.equipped_weapon = None
    /\ g.current_room = SubSeq(shuffled, 1, 4)
    /\ Len(g.current_room) = 4
    /\ g.dungeon = SubSeq(shuffled, 5, 44)
    /\ Len(g.dungeon) = 40
    /\ g.discard = <<>>
    /\ g.cards_played_this_room = 0
    /\ ~g.ran_last_room
    /\ ~g.potion_used_this_room
    /\ ~g.game_over
    /\ ~g.victory

\* C22: a newly constructed game has player_health = 20, max_health = 20, no
\* equipped weapon, a current room of the first 4 cards of the shuffled
\* 44-card deck, a dungeon of the other 40 in order, an empty discard,
\* cards_played_this_room = 0 and ran_last_room, potion_used_this_room,
\* game_over and victory false, for every shuffle order.
C22_NewGame ==
    /\ \A shuffled \in ShuffleOrders :
          /\ Len(shuffled) = 44
          /\ FreshGame(new_game(shuffled), shuffled)
    /\ (ret = NoReturn /\ left = MaxCalls) =>
          \E shuffled \in ShuffleOrders : FreshGame(game_state, shuffled)

\* GameState() has returned a game whose first room opens with a weapon.
C22_Witness ==
    /\ ret = NoReturn
    /\ left = MaxCalls
    /\ Len(room) = 4
    /\ CardType(room[1]) = "WEAPON"
    /\ Len(dungeon) = 40

DeckCards == {build_deck[i] : i \in 1..Len(build_deck)}

OfSuit(suit) == {c \in DeckCards : c.suit = suit}

OfType(type) == {c \in DeckCards : CardType(c) = type}

\* C23: the built deck holds exactly 44 cards, no (suit, value) pair twice:
\* values 2..14 of Clubs and of Spades (26 Monster cards), values 2..10 of
\* Diamonds (9 Weapon cards) and of Hearts (9 Potion cards); the category of
\* a card is determined by its suit alone.
C23_DeckComposition ==
    /\ Len(build_deck) = 44
    /\ Cardinality(DeckCards) = 44
    /\ OfSuit("CLUBS") = {Card("CLUBS", v) : v \in 2..14}
    /\ OfSuit("SPADES") = {Card("SPADES", v) : v \in 2..14}
    /\ OfSuit("DIAMONDS") = {Card("DIAMONDS", v) : v \in 2..10}
    /\ OfSuit("HEARTS") = {Card("HEARTS", v) : v \in 2..10}
    /\ OfType("MONSTER") = OfSuit("CLUBS") \cup OfSuit("SPADES")
    /\ Cardinality(OfType("MONSTER")) = 26
    /\ OfType("WEAPON") = OfSuit("DIAMONDS")
    /\ Cardinality(OfType("WEAPON")) = 9
    /\ OfType("POTION") = OfSuit("HEARTS")
    /\ Cardinality(OfType("POTION")) = 9
    /\ \A suit \in {"CLUBS", "SPADES", "DIAMONDS", "HEARTS"}, v1, v2 \in 2..14 :
          CardType(Card(suit, v1)) = CardType(Card(suit, v2))
    /\ \A i \in 1..Len(room) : room[i] \in DeckCards
    /\ \A i \in 1..Len(dungeon) : dungeon[i] \in DeckCards

\* A game has been constructed from the deck: 44 cards are in the room and
\* the dungeon, the room holding a monster, a weapon and a potion.
C23_Witness ==
    /\ Len(room) + Len(dungeon) = 44
    /\ \E i, j, k \in 1..Len(room) :
          /\ CardType(room[i]) = "MONSTER"
          /\ CardType(room[j]) = "WEAPON"
          /\ CardType(room[k]) = "POTION"

\* The number of Clubs and Spades cards of a pile.
BlackCards(cards) == Cardinality({i \in 1..Len(cards) : IsMonsterSuit(cards[i])})

\* C24: get_remaining_monster_count returns the number of Clubs and Spades
\* cards in dungeon and current_room together, counts no discarded card and
\* changes no field of the state; in every reachable state it equals 26 minus
\* the number of Monster cards in discard.
C24_RemainingMonsterCount ==
    LET r == get_remaining_monster_count(game_state)
    IN  /\ r.state = game_state
        /\ r.count = BlackCards(dungeon) + BlackCards(room)
        /\ r.count = 26 - BlackCards(discard)

\* Monsters lie in all three piles: some discarded, some in the room, some
\* in the dungeon.
C24_Witness ==
    /\ BlackCards(discard) >= 2
    /\ BlackCards(room) >= 1
    /\ BlackCards(dungeon) >= 1
    /\ get_remaining_monster_count(game_state).count < 26

\* The call that has just returned dealt a room.
DealtRoom ==
    \/ PlayReturned /\ ret.message.new_room
    \/ RunReturned /\ ret.success

\* C25: current_room never holds more than 4 cards; right after a room deal
\* (at construction, by a run, by a room-advance) it holds exactly 4 unless
\* the dungeon is empty after that deal; a room that started with 4 cards
\* keeps at least 1 card until the next room is dealt.
C25_RoomSize ==
    /\ Len(room) <= 4
    /\ \A shuffled \in ShuffleOrders : Len(new_game(shuffled).current_room) = 4
    /\ DealtRoom => (Len(room) = 4 \/ dungeon = <<>>)
    /\ Len(room) + game_state.cards_played_this_room = 4 => Len(room) >= 1

\* The last room-advance found one card in the dungeon: the room dealt holds
\* 2 cards, one of them a monster.
C25_Witness ==
    /\ PlayReturned
    /\ ret.message.new_room
    /\ Len(room) = 2
    /\ dungeon = <<>>
    /\ HasMonster(room)

\* C26: cards_played_this_room goes back to 0, and potion_used_this_room goes
\* from true to false, only in a call that deals a new room (a successful
\* run_from_room, the room-advancing play_card; construction deals the first),
\* and every such deal leaves them at 0 and false; a successful play_card
\* that deals no room raises cards_played_this_room by exactly 1, and a
\* rejected call leaves both as they were.
C26_RoomCountersResetByDeal ==
    [][/\ (\/ game_state'.cards_played_this_room < game_state.cards_played_this_room
           \/ game_state.potion_used_this_room /\ ~game_state'.potion_used_this_room)
              => DealtRoom'
       /\ DealtRoom' =>
              /\ game_state'.cards_played_this_room = 0
              /\ ~game_state'.potion_used_this_room
       /\ (PlayReturned' /\ ret'.success /\ ~ret'.message.new_room) =>
              game_state'.cards_played_this_room
                  = game_state.cards_played_this_room + 1
       /\ ~ret'.success =>
              /\ game_state'.cards_played_this_room = game_state.cards_played_this_room
              /\ game_state'.potion_used_this_room = game_state.potion_used_this_room]_vars

\* A room in which a potion was drunk has been cleared: the next room starts
\* with no card played and no potion used.
C26_Witness ==
    /\ PlayReturned
    /\ ret.message.new_room
    /\ \E j \in (Len(discard) - 2)..Len(discard) : j >= 1 /\ discard[j].suit = "HEARTS"
    /\ game_state.cards_played_this_room = 0
    /\ ~game_state.potion_used_this_room
    /\ ~game_state.game_over

\* C27: discard is append-only: no call removes or reorders a card of
\* discard, a successful play_card appends exactly one card to it, a
\* run_from_room call (with its room deal) and a rejected call leave it as it
\* was, and no discarded card is in the dungeon or the room afterwards.
C27_DiscardAppendOnly ==
    [][/\ Len(game_state'.discard) >= Len(discard)
       /\ SubSeq(game_state'.discard, 1, Len(discard)) = discard
       /\ (PlayReturned' /\ ret'.success) =>
              Len(game_state'.discard) = Len(discard) + 1
       /\ (RunReturned' \/ ~ret'.success) => game_state'.discard = discard
       /\ \A i \in 1..Len(game_state'.discard) :
              /\ Count(game_state'.dungeon, game_state'.discard[i]) = 0
              /\ Count(game_state'.current_room, game_state'.discard[i]) = 0]_vars

\* With cards on the discard pile, a room has been fled and another dealt.
C27_Witness ==
    /\ RunReturned
    /\ ret.success
    /\ Len(discard) >= 3
    /\ Len(room) = 4

\* C28: in every reachable state with game_over = false the current room is
\* non-empty: dungeon and current_room are never both empty while game_over
\* is false.
C28_RoomNeverEmptyWhileOn ==
    ~game_state.game_over => room # <<>>

C30_DungeonLengthMod3 ==
    [][/\ dungeon # <<>> => Len(dungeon) % 3 = 1
       /\ game_state'.dungeon # <<>> => Len(game_state'.dungeon) % 3 = 1
       /\ (dungeon # <<>> /\ game_state'.dungeon = <<>>) =>
              /\ PlayReturned'
              /\ ret'.message.new_room
              /\ Len(dungeon) = 1
              /\ Len(dungeon) < RoomSize - 1
       /\ (DealtRoom' /\ game_state'.dungeon = <<>>) =>
              Len(game_state'.current_room) = 2
       /\ (dungeon = <<>> /\ PlayReturned') =>
              /\ ~ret'.message.new_room
              /\ game_state'.dungeon = <<>>]_vars

\* With the dungeon empty, a card of the final room of two has been played
\* and no room was dealt.
C30_Witness ==
    /\ PlayReturned
    /\ ret.success
    /\ ~ret.message.new_room
    /\ dungeon = <<>>
    /\ Len(room) = 1
    /\ game_state.cards_played_this_room = 1

\* C31: game_over and victory are stable: once true, each stays true in
\* every later state, also when play_card and run_from_room go on being
\* called after the game has ended.
C31_OutcomeStable ==
    [][/\ game_state.game_over => game_state'.game_over
       /\ game_state.victory => game_state'.victory]_vars

\* After the game was won, a card of the final room has still been played.
C31_Witness ==
    /\ game_state.game_over
    /\ game_state.victory
    /\ PlayReturned
    /\ ret.success
    /\ ~ret.message.new_room
    /\ dungeon = <<>>
    /\ Len(room) = 1

\* C32: for a caller that issues no mutating call once game_over is true,
\* game_over holds exactly when player_health <= 0 or victory is true; so
\* game_over with victory false means player_health <= 0.
C32_OverIffDeadOrWon ==
    /\ game_state.game_over <=> (health <= 0 \/ game_state.victory)
    /\ (game_state.game_over /\ ~game_state.victory) => health <= 0

\* The game has ended by the player's death, without victory.
C32_Witness ==
    /\ game_state.game_over
    /\ ~game_state.victory
    /\ health <= 0
    /\ PlayReturned
    /\ ret.message.kind[1] = "defeated"

\* The game has ended by victory, the player alive.
C32_WitnessWon ==
    /\ game_state.game_over
    /\ game_state.victory
    /\ health > 0

\* C33: 0 <= cards_played_this_room <= 3 and
\* len(current_room) + cards_played_this_room <= 4 in every reachable state,
\* with equality whenever the dungeon is non-empty.
C33_PlayedPlusRoom ==
    /\ game_state.cards_played_this_room >= 0
    /\ game_state.cards_played_this_room <= 3
    /\ Len(room) + game_state.cards_played_this_room <= 4
    /\ dungeon # <<>> => Len(room) + game_state.cards_played_this_room = 4

\* Both cards of the final room of two have been played: the sum is 2.
C33_Witness ==
    /\ dungeon = <<>>
    /\ room = <<>>
    /\ game_state.cards_played_this_room = 2

\* C34: the card resolved for "use weapon" or "barehanded" chosen in a combat
\* dialog is the monster that dialog was opened for, whatever card buttons,
\* runs, new games and other dialogs came between the opening and the choice.
C34_DialogResolvesItsMonster ==
    (option_events # None /\ option_events[1].resolved # None) =>
        option_events[1].resolved = Some(option_events[1].monster)

\* A choice in a combat dialog has resolved the monster of the dialog.
C34_WitnessSameMonster ==
    /\ option_events # None
    /\ option_events[1].resolved = Some(option_events[1].monster)

\* C35: every room deal reached through play_card or run_from_room starts
\* with at most one card in current_room (the unplayed card of a room-advance,
\* none after a run; the constructor deals into an empty room), so keeping
\* only the first card drops none: the cards of room and dungeon after the
\* deal are those before it.
C35_DealKeepsEveryCard ==
    [][/\ (PlayReturned' /\ ret'.message.new_room) =>
              LET played == game_state'.discard[Len(game_state'.discard)]
                  rest == Unplayed(room, played)
              IN  /\ Len(rest) <= 1
                  /\ game_state'.current_room \o game_state'.dungeon
                        = rest \o dungeon
       /\ (RunReturned' /\ ret'.success) =>
              game_state'.current_room \o game_state'.dungeon = dungeon \o room]_vars

\* A room-advance has carried the one unplayed card into a full new room.
C35_Witness ==
    /\ PlayReturned
    /\ ret.message.new_room
    /\ Len(room) = 4
    /\ Len(discard) >= 6

====
